---- MODULE Spec2Model ----
(***************************************************************************)
(* The interview session client of ai-interview-portal: App.tsx (phases)   *)
(* and the final InterviewPage draft (frontend/src/hooks.ts:400-607): one  *)
(* WebSocket per run of the connection effect, the self-preview camera,    *)
(* and the MediaRecorder captures driven by startRecording/stopRecording,  *)
(* and the ResultsPage the App shows once the results message has arrived. *)
(*                                                                         *)
(* React: a state setter of an unmounted component changes nothing; refs   *)
(* (useRef) live on in the closures that hold them.  A handler created in  *)
(* an effect sees the state of the render in which the effect ran.         *)
(***************************************************************************)
EXTENDS Integers, Sequences, FiniteSets, TLC

\* ---- bounds --------------------------------------------------------------
\* sockets and recorders created in one session, under Spec
MaxObjects == 2
\* the same under SpecMedia
MaxMedia == 3
\* sockets created in one session, under SpecDisplay
MaxSockets == 2
MaxIndex == 2
MaxChunks == 1
\* questions the server asks in one session, under SpecSession
MaxQuestions == 5
\* bootstrap requests issued by the setup form, under SpecEntry
MaxSubmits == 2
\* recorders created in one session, under SpecSubmit
MaxAnswers == 2
\* the initial seconds of a countdown and the interval ticks, under SpecTimer
MaxSeconds == 10
MaxTicks == 12

\* ---- values --------------------------------------------------------------
NoUrl == <<>>
BaseUrl == <<"http://", "localhost:8000">>
GreetingUrl == <<"/v/g1.mp4">>
QuestionUrl == <<"http://", "cdn", "/v/q.mp4">>
ListenUrl == <<"/v/listen.mp4">>

QuestionTexts == {"Tell me about yourself", "Why this role"}
WaitingText == "Waiting for question..."
WelcomeText == "Welcome! Let's begin."

\* a field the message does not carry (undefined)
Absent == <<-1>>

\* no countdown is mounted
NoTimer == [initialSeconds |-> -1, remaining |-> -1, ticks |-> 0]
\* the seconds the first draft's interview timer starts with
InterviewSeconds == 300

\* a number an evaluation item does not carry (undefined)
Missing == -1
\* an item of the evaluations list; score and marks are per-question integers
Evaluation(score, marks) == [score |-> score, marks |-> marks]
\* an evaluations list the results message does not carry (undefined)
NoEvaluations == <<Evaluation(-2, -2)>>

\* the endpoint as the server reports it, a sequence of URL tokens
ServerWsUrl == <<"ws://", "0.0.0.0", "/", "ws", "/", "s1">>
\* a ws_url the response does not carry (undefined)
NoWsUrl == <<"undefined">>
\* a session_id the response does not carry (undefined)
NoSessionId == "undefined"

\* the body of the bootstrap response (InterviewData)
InterviewData(id, url) == [session_id |-> id, ws_url |-> url]
\* sessionData before the bootstrap, and a response body that is JSON null
NoData == InterviewData("null", <<"null">>)
SessionOk == InterviewData("s1", ServerWsUrl)

\* endpoints a server may report: scheme, host, an optional port, a path
Urls ==
    {<<scheme, host>> \o port \o <<"/", segment>> :
        scheme \in {"ws://", "wss://"},
        host \in {"0.0.0.0", "localhost", "example.com"},
        port \in {<<>>, <<":8000">>, <<":9000">>},
        segment \in {"ws", "0.0.0.0"}}

\* the bodies a 200 response may have
ResponseBodies ==
    {SessionOk, InterviewData(NoSessionId, ServerWsUrl),
     InterviewData("s1", NoWsUrl), NoData}

\* the question counts the setup form accepts, and the one it starts with
MinQuestionCount == 1
MaxQuestionCount == 10
DefaultQuestionCount == 5
QuestionCounts == MinQuestionCount..MaxQuestionCount

\* InterviewPage's totalQuestions, a state whose setter is never called
totalQuestions == 5

\* what the user may have typed in a field of the setup form
FieldValues == {<<>>, <<" ">>, <<"a">>, <<" ", "a", " ">>}
Filled == <<"a">>

\* the names getUserMedia rejects with
ErrorNames ==
    {"NotAllowedError", "PermissionDeniedError", "NotFoundError",
     "NotReadableError", "SecurityError", "AbortError"}

\* an inbound message; scores are per-question integers, overall_score is in
\* tenths
Msg(t, i, x, u) ==
    [type |-> t, question_index |-> i, question_text |-> x, video_url |-> u,
     overall_score |-> 0, breakdown |-> Absent, evaluations |-> NoEvaluations]
NoMsg == Msg("none", 0, "", NoUrl)
\* event.data that is not JSON: JSON.parse throws on it
Malformed == Msg("", 0, "{", NoUrl)

\* what the server may send on an open socket
InboundMessages ==
    {Msg("greeting_video", 0, "", GreetingUrl)}
    \cup {Msg("question_video", i, x, QuestionUrl) : i \in 1..MaxIndex, x \in QuestionTexts}
    \cup {Msg("start_listening", 0, "", u) : u \in {NoUrl, ListenUrl}}
    \cup {Msg("transcription_partial", 0, "partial", NoUrl)}
    \cup {Msg("results", 0, "", NoUrl)}
    \cup {Msg("telemetry", 0, "", NoUrl), Malformed}

\* one message of each type
ControlMessages ==
    {Msg("greeting_video", 0, "", GreetingUrl),
     Msg("question_video", 1, "Tell me about yourself", QuestionUrl),
     Msg("start_listening", 0, "", NoUrl),
     Msg("transcription_partial", 0, "partial", NoUrl),
     Msg("results", 0, "", NoUrl)}

VARIABLES
    phase, sessionData, results,
    setupPage, permissionPage,
    mounted, currentQuestion, questionText, transcription, isRecording,
    isInputAllowed, error, connectionStatus, aiVideoUrl,
    isConnecting, socketRef, mediaRecorderRef, audioChunksRef, userStreamRef,
    wsCleanup,
    sockets, captures, camera, timers, outbound,
    countdown,
    seen, answers, last

appVars == <<phase, sessionData, results>>
entryVars == <<setupPage, permissionPage>>
pageState == <<currentQuestion, questionText, transcription, isRecording,
               isInputAllowed, error, connectionStatus, aiVideoUrl>>
pageRefs == <<isConnecting, socketRef, mediaRecorderRef, audioChunksRef, userStreamRef>>
envVars == <<sockets, captures, camera, timers, outbound>>
vars == <<appVars, entryVars, mounted, pageState, pageRefs, wsCleanup, envVars, countdown, seen, answers,
         last>>

Step(o, m) == [op |-> o, msg |-> m]

\* the question indices received so far while they were strictly increasing,
\* OutOfOrder once one was not
OutOfOrder == <<0>>
Received(log, i) ==
    IF log # OutOfOrder /\ (log = <<>> \/ log[Len(log)] < i)
    THEN Append(log, i)
    ELSE OutOfOrder

\* ---- pure helpers --------------------------------------------------------
startsWithHttp(relativePath) ==
    /\ Len(relativePath) > 0
    /\ relativePath[1] \in {"http://", "https://"}

getFullVideoUrl(relativePath) ==
    IF startsWithHttp(relativePath) THEN relativePath ELSE BaseUrl \o relativePath

\* a React state setter: the new value while mounted, the old one afterwards
Set(old, new) == IF mounted THEN new ELSE old

Out(s, t, c, b) == [sock |-> s, type |-> t, cap |-> c, chunks |-> b]

\* the positions of the outbound sequence that hold a message of type t
Sent(t) == {j \in DOMAIN outbound : outbound[j].type = t}

\* WebSocket.send: queued on an OPEN socket, dropped on a closing/closed one
send(s, t, c, b) ==
    IF sockets[s].state = "OPEN" THEN Append(outbound, Out(s, t, c, b)) ELSE outbound

Init ==
    /\ phase = "setup"
    /\ sessionData = NoData
    /\ results = NoMsg
    /\ setupPage = [jobDesc |-> <<>>, name |-> <<>>, questionCount |-> DefaultQuestionCount,
                    loading |-> FALSE, error |-> "", requests |-> 0]
    /\ permissionPage = [mounted |-> FALSE, request |-> "idle", cameraReady |-> FALSE,
                         micReady |-> FALSE, error |-> "", permissionDenied |-> FALSE,
                         srcObject |-> FALSE, tracks |-> "none"]
    /\ mounted = FALSE
    /\ currentQuestion = 1
    /\ questionText = WaitingText
    /\ transcription = ""
    /\ isRecording = FALSE
    /\ isInputAllowed = FALSE
    /\ error = ""
    /\ connectionStatus = "Connecting..."
    /\ aiVideoUrl = NoUrl
    /\ isConnecting = FALSE
    /\ socketRef = 0
    /\ mediaRecorderRef = 0
    /\ audioChunksRef = <<>>
    /\ userStreamRef = FALSE
    /\ wsCleanup = FALSE
    /\ sockets = <<>>
    /\ captures = <<>>
    /\ camera = "idle"
    /\ timers = {}
    /\ outbound = <<>>
    /\ countdown = NoTimer
    /\ seen = <<>>
    /\ answers = 0
    /\ last = Step("init", NoMsg)

\* ---- useTimer (hooks.ts:34-46) ----------------------------------------
\* the hook mounts with its initial seconds; the interview timer of the first
\* draft is the same countdown from 300 (hooks.ts:1075, 1117-1119)
useTimer(initialSeconds) ==
    /\ countdown = NoTimer
    /\ countdown' = [initialSeconds |-> initialSeconds, remaining |-> initialSeconds,
                     ticks |-> 0]
    /\ last' = Step("useTimer", NoMsg)
    /\ UNCHANGED <<appVars, entryVars, mounted, pageState, pageRefs, wsCleanup, envVars,
                   seen, answers>>

\* an updater that decrements whatever the value
DecrementAlways(prev) == prev - 1

\* the updater of setRemaining (hooks.ts:39)
Decrement(prev) == IF prev > 0 THEN prev - 1 ELSE 0

\* the interval fires
Tick ==
    /\ countdown # NoTimer
    /\ countdown' = [countdown EXCEPT !.remaining = Decrement(@), !.ticks = @ + 1]
    /\ last' = Step("tick", NoMsg)
    /\ UNCHANGED <<appVars, entryVars, mounted, pageState, pageRefs, wsCleanup, envVars,
                   seen, answers>>

\* ---- App.tsx -----------------------------------------------------------
\* String.includes, String.replace (first occurrence) on token sequences
RECURSIVE indexOf(_, _, _)
indexOf(str, pat, i) ==
    IF i + Len(pat) - 1 > Len(str) THEN 0
    ELSE IF SubSeq(str, i, i + Len(pat) - 1) = pat THEN i
    ELSE indexOf(str, pat, i + 1)

includes(str, pat) == indexOf(str, pat, 1) # 0

replace(str, pat, by) ==
    LET i == indexOf(str, pat, 1)
    IN  IF i = 0 THEN str
        ELSE SubSeq(str, 1, i - 1) \o by \o SubSeq(str, i + Len(pat), Len(str))

\* the wsUrl handlePermissionApprove computes (App.tsx:27-35)
wsUrlOf(url) ==
    LET local == replace(url, <<"0.0.0.0">>, <<"localhost">>)
    IN  IF ~includes(local, <<":8000">>)
        THEN replace(local, <<"ws://", "localhost", "/">>,
                     <<"ws://", "localhost", ":8000", "/">>)
        ELSE local

\* phase 'permission' renders CameraPermissionPage, whose effect requests
\* camera and microphone on mount
handleSetupStart(data) ==
    /\ phase = "setup"
    /\ sessionData' = data
    /\ phase' = "permission"
    /\ permissionPage' = [permissionPage EXCEPT !.mounted = TRUE, !.request = "pending"]
    /\ UNCHANGED <<countdown, answers>>
    /\ last' = Step("handleSetupStart", NoMsg)
    /\ seen' = seen
    /\ UNCHANGED <<results, mounted, pageState, pageRefs, wsCleanup, envVars>>

\* a socket as the connection effect creates it; its handlers close over the
\* isRecording of the render in which the effect ran
NewSocket(rec, url) == [state |-> "CONNECTING", isRecording |-> rec, url |-> url]

\* the fixedUrl the connection effect computes from its wsUrl prop
\* (hooks.ts:471-474)
fixedUrl(wsUrl) ==
    LET local == replace(wsUrl, <<"0.0.0.0">>, <<"localhost">>)
    IN  IF ~includes(local, <<":8000">>)
        THEN replace(local, <<"ws://", "localhost", "/">>,
                     <<"ws://", "localhost", ":8000", "/">>)
        ELSE local

\* the cleanup returned by the connection effect (hooks.ts:548-553)
CleanupSockets(socks) ==
    IF wsCleanup /\ socketRef # 0 /\ socks[socketRef].state = "OPEN"
    THEN [socks EXCEPT ![socketRef].state = "CLOSING"]
    ELSE socks

CleanupConnecting == IF wsCleanup THEN FALSE ELSE isConnecting

\* the body of the connection effect, run with the lock value `lock`
RunConnectionEffect(lock, socks, wsUrl) ==
    IF lock
    THEN /\ sockets' = socks
         /\ isConnecting' = lock
         /\ wsCleanup' = FALSE
         /\ connectionStatus' = connectionStatus
    ELSE /\ sockets' = Append(socks, NewSocket(isRecording, fixedUrl(wsUrl)))
         /\ isConnecting' = TRUE
         /\ wsCleanup' = TRUE
         /\ connectionStatus' = "Connecting..."

\* the cleanup of the permission effect (hooks.ts:254-259) stops the tracks of
\* the stream it finds on the video element; `ref` is whether videoRef.current
\* still holds the element when the cleanup runs
CleanupPreview(ref) ==
    [permissionPage EXCEPT
        !.mounted = FALSE,
        !.tracks = IF ref /\ permissionPage.srcObject /\ @ = "live" THEN "stopped" ELSE @]

\* with no session data the handler does nothing, and with a ws_url that is
\* undefined its first replace throws.  Otherwise phase 'interview' unmounts
\* CameraPermissionPage and renders InterviewPage: both effects run on mount.
\* Whether React has detached videoRef before the cleanup runs depends on the
\* React version of the build
handlePermissionApprove ==
    /\ phase = "permission"
    /\ UNCHANGED <<countdown, answers>>
    /\ last' = Step("handlePermissionApprove", NoMsg)
    /\ seen' = seen
    /\ IF sessionData = NoData \/ sessionData.ws_url = NoWsUrl
       THEN UNCHANGED <<appVars, entryVars, mounted, pageState, pageRefs, wsCleanup,
                        envVars>>
       ELSE /\ sessionData' = [sessionData EXCEPT !.ws_url = wsUrlOf(@)]
            /\ phase' = "interview"
            /\ \E ref \in BOOLEAN : permissionPage' = CleanupPreview(ref)
            /\ mounted' = TRUE
            /\ camera' = "pending"
            /\ RunConnectionEffect(isConnecting, sockets, wsUrlOf(sessionData.ws_url))
            /\ UNCHANGED <<results, setupPage, currentQuestion, questionText,
                           transcription, isRecording, isInputAllowed, error,
                           aiVideoUrl, socketRef, mediaRecorderRef, audioChunksRef,
                           userStreamRef, captures, timers, outbound>>

\* ---- SetupPage (hooks.ts:99-194) ----------------------------------------
RECURSIVE trimStart(_)
trimStart(str) == IF str # <<>> /\ Head(str) = " " THEN trimStart(Tail(str)) ELSE str

RECURSIVE trimEnd(_)
trimEnd(str) ==
    IF str # <<>> /\ str[Len(str)] = " "
    THEN trimEnd(SubSeq(str, 1, Len(str) - 1))
    ELSE str

trim(str) == trimEnd(trimStart(str))

onChangeJobDesc(v) ==
    /\ phase = "setup"
    /\ setupPage' = [setupPage EXCEPT !.jobDesc = v]
    /\ UNCHANGED <<countdown, answers>>
    /\ last' = Step("onChangeJobDesc", NoMsg)
    /\ seen' = seen
    /\ UNCHANGED <<appVars, permissionPage, mounted, pageState, pageRefs, wsCleanup,
                   envVars>>

onChangeName(v) ==
    /\ phase = "setup"
    /\ setupPage' = [setupPage EXCEPT !.name = v]
    /\ UNCHANGED <<countdown, answers>>
    /\ last' = Step("onChangeName", NoMsg)
    /\ seen' = seen
    /\ UNCHANGED <<appVars, permissionPage, mounted, pageState, pageRefs, wsCleanup,
                   envVars>>

\* a validation that does not trim
FieldsEmpty == setupPage.jobDesc = <<>> \/ setupPage.name = <<>>

onChangeQuestionCount(n) ==
    /\ phase = "setup"
    /\ setupPage' = [setupPage EXCEPT !.questionCount = n]
    /\ UNCHANGED <<countdown, answers>>
    /\ last' = Step("onChangeQuestionCount", NoMsg)
    /\ seen' = seen
    /\ UNCHANGED <<appVars, permissionPage, mounted, pageState, pageRefs, wsCleanup,
                   envVars>>

\* the validation of handleStart (hooks.ts:114)
FieldsMissing == trim(setupPage.jobDesc) = <<>> \/ trim(setupPage.name) = <<>>

\* handleStart up to its await: the validation, then the fetch.  Its caller is
\* the form's submit, whose button is disabled while loading; the inputs'
\* `required`, which keeps the browser from submitting an empty field but not
\* a blank one, is left out so that the validation meets both
handleStart ==
    /\ phase = "setup"
    /\ setupPage' = IF FieldsMissing
                    THEN [setupPage EXCEPT !.error = "Please fill in all fields"]
                    ELSE [setupPage EXCEPT !.loading = TRUE, !.error = "",
                                           !.requests = @ + 1]
    /\ UNCHANGED <<countdown, answers>>
    /\ last' = Step("handleStart", NoMsg)
    /\ seen' = seen
    /\ UNCHANGED <<appVars, permissionPage, mounted, pageState, pageRefs, wsCleanup,
                   envVars>>

\* what the catch shows: the network error's message, the message thrown for
\* a response that is not ok, the parse error of a body that is not JSON
FetchErrors == {"Failed to fetch", "Failed to start interview", "Unexpected token"}

\* the request failed: catch, then finally
FetchFails(message) ==
    /\ phase = "setup"
    /\ setupPage.loading
    /\ setupPage' = [setupPage EXCEPT !.error = message, !.loading = FALSE]
    /\ UNCHANGED <<countdown, answers>>
    /\ last' = Step("FetchFails", NoMsg)
    /\ seen' = seen
    /\ UNCHANGED <<appVars, permissionPage, mounted, pageState, pageRefs, wsCleanup,
                   envVars>>

\* the response is ok and its body parses to `data`: onStart(data), which
\* unmounts the form, so that the setLoading(false) of finally sets nothing
FetchSucceeds(data) ==
    /\ setupPage.loading
    /\ handleSetupStart(data)
    /\ setupPage' = setupPage

\* ---- CameraPermissionPage (hooks.ts:196-260) ----------------------------
\* a setter of the permission page
SetP(old, new) == IF permissionPage.mounted THEN new ELSE old

\* getUserMedia resolved with a stream
PermissionGranted ==
    /\ permissionPage.request = "pending"
    /\ permissionPage' = [permissionPage EXCEPT
            !.request = "granted",
            !.tracks = "live",
            !.srcObject = permissionPage.mounted,
            !.cameraReady = SetP(@, TRUE),
            !.micReady = SetP(@, TRUE),
            !.error = SetP(@, ""),
            !.permissionDenied = SetP(@, FALSE)]
    /\ UNCHANGED <<countdown, answers>>
    /\ last' = Step("PermissionGranted", NoMsg)
    /\ seen' = seen
    /\ UNCHANGED <<appVars, setupPage, mounted, pageState, pageRefs, wsCleanup,
                   envVars>>

\* a catch that shows one message for a missing and for a busy device
PermissionErrorMerged(errorName) ==
    IF errorName \in {"NotAllowedError", "PermissionDeniedError"}
    THEN "Camera/microphone permission denied"
    ELSE IF errorName \in {"NotFoundError", "NotReadableError"}
    THEN "No camera/microphone found"
    ELSE IF errorName = "SecurityError" THEN "Secure context required"
    ELSE "Error: aborted"

\* the message of the catch for an error name (hooks.ts:234-246), without its
\* leading cross mark
PermissionError(errorName) ==
    IF errorName \in {"NotAllowedError", "PermissionDeniedError"}
    THEN "Camera/microphone permission denied"
    ELSE IF errorName = "NotFoundError" THEN "No camera/microphone found"
    ELSE IF errorName = "NotReadableError" THEN "Camera/microphone already in use"
    ELSE IF errorName = "SecurityError" THEN "Secure context required"
    ELSE "Error: aborted"

\* getUserMedia rejected with an error of this name
PermissionFailed(errorName) ==
    /\ permissionPage.request = "pending"
    /\ permissionPage' = [permissionPage EXCEPT
            !.request = "failed",
            !.error = SetP(@, PermissionError(errorName)),
            !.permissionDenied =
                IF errorName \in {"NotAllowedError", "PermissionDeniedError"}
                THEN SetP(@, TRUE) ELSE @,
            !.cameraReady = SetP(@, FALSE),
            !.micReady = SetP(@, FALSE)]
    /\ UNCHANGED <<countdown, answers>>
    /\ last' = Step("PermissionFailed", Msg(errorName, 0, "", NoUrl))
    /\ seen' = seen
    /\ UNCHANGED <<appVars, setupPage, mounted, pageState, pageRefs, wsCleanup,
                   envVars>>

\* a Continue button that is never disabled
ContinueAlwaysEnabled == TRUE

\* the Continue button, whose click calls onApprove, is enabled
ContinueEnabled == permissionPage.cameraReady /\ permissionPage.micReady

\* React re-runs the connection effect: the old cleanup, then the effect again.
\* Its dependencies are wsUrl and onComplete, which change only when App
\* renders, and every setter of App changes the phase; so what is left is the
\* development double invocation, once, in the commit that mounted the page
ConnectionEffectRerun ==
    /\ mounted
    /\ Len(sockets) = 1
    /\ sockets[1].state = "CONNECTING"
    /\ RunConnectionEffect(CleanupConnecting, CleanupSockets(sockets), sessionData.ws_url)
    /\ UNCHANGED <<countdown, answers>>
    /\ last' = Step("ConnectionEffectRerun", NoMsg)
    /\ seen' = seen
    /\ UNCHANGED <<appVars, entryVars, mounted, currentQuestion, questionText, transcription,
                   isRecording, isInputAllowed, error, aiVideoUrl, socketRef,
                   mediaRecorderRef, audioChunksRef, userStreamRef, captures, camera,
                   timers, outbound>>

\* ---- self-preview camera (hooks.ts:436-461) ------------------------------
CameraGranted ==
    /\ camera = "pending"
    /\ camera' = "live"
    /\ userStreamRef' = TRUE
    /\ UNCHANGED <<countdown, answers>>
    /\ last' = Step("CameraGranted", NoMsg)
    /\ seen' = seen
    /\ UNCHANGED <<appVars, entryVars, mounted, pageState, isConnecting, socketRef, mediaRecorderRef,
                   audioChunksRef, wsCleanup, sockets, captures, timers, outbound>>

CameraDenied ==
    /\ camera = "pending"
    /\ camera' = "failed"
    /\ UNCHANGED <<countdown, answers>>
    /\ last' = Step("CameraDenied", NoMsg)
    /\ seen' = seen
    /\ UNCHANGED <<appVars, entryVars, mounted, pageState, pageRefs, wsCleanup, sockets, captures,
                   timers, outbound>>

\* the cleanup of the camera effect
CleanupCamera == IF userStreamRef /\ camera = "live" THEN "stopped" ELSE camera

\* ---- socket events -------------------------------------------------------
SocketOpen(s) ==
    /\ sockets[s].state = "CONNECTING"
    /\ sockets' = [sockets EXCEPT ![s].state = "OPEN"]
    /\ socketRef' = s
    /\ connectionStatus' = Set(connectionStatus, "Connected")
    /\ error' = Set(error, "")
    /\ outbound' = Append(outbound, Out(s, "ready", 0, <<>>))
    /\ UNCHANGED <<countdown, answers>>
    /\ last' = Step("onopen", NoMsg)
    /\ seen' = seen
    /\ UNCHANGED <<appVars, entryVars, mounted, currentQuestion, questionText, transcription,
                   isRecording, isInputAllowed, aiVideoUrl, isConnecting,
                   mediaRecorderRef, audioChunksRef, userStreamRef, wsCleanup, captures,
                   camera, timers>>

\* a failed connection: the error event, then the close event
SocketError(s) ==
    /\ sockets[s].state \in {"CONNECTING", "OPEN"}
    /\ sockets' = [sockets EXCEPT ![s].state = "CLOSED"]
    /\ error' = Set(error, "WebSocket connection failed")
    /\ connectionStatus' = Set(connectionStatus, "Disconnected")
    /\ isConnecting' = FALSE
    /\ socketRef' = 0
    /\ UNCHANGED <<countdown, answers>>
    /\ last' = Step("onerror", NoMsg)
    /\ seen' = seen
    /\ UNCHANGED <<appVars, entryVars, mounted, currentQuestion, questionText, transcription,
                   isRecording, isInputAllowed, aiVideoUrl, mediaRecorderRef,
                   audioChunksRef, userStreamRef, wsCleanup, captures, camera, timers,
                   outbound>>

\* an onclose that connects again
SocketCloseReconnects(s) ==
    /\ sockets[s].state \in {"OPEN", "CLOSING"}
    /\ sockets' = Append([sockets EXCEPT ![s].state = "CLOSED"], NewSocket(isRecording, sockets[s].url))
    /\ socketRef' = 0
    /\ connectionStatus' = Set(connectionStatus, "Connecting...")
    /\ isConnecting' = TRUE
    /\ UNCHANGED <<countdown, answers>>
    /\ last' = Step("onclose", NoMsg)
    /\ seen' = seen
    /\ UNCHANGED <<appVars, entryVars, mounted, currentQuestion, questionText, transcription,
                   isRecording, isInputAllowed, error, aiVideoUrl, mediaRecorderRef,
                   audioChunksRef, userStreamRef, wsCleanup, captures, camera, timers,
                   outbound>>

SocketClose(s) ==
    /\ sockets[s].state \in {"OPEN", "CLOSING"}
    /\ sockets' = [sockets EXCEPT ![s].state = "CLOSED"]
    /\ socketRef' = 0
    /\ connectionStatus' = Set(connectionStatus, "Disconnected")
    /\ isConnecting' = FALSE
    /\ UNCHANGED <<countdown, answers>>
    /\ last' = Step("onclose", NoMsg)
    /\ seen' = seen
    /\ UNCHANGED <<appVars, entryVars, mounted, currentQuestion, questionText, transcription,
                   isRecording, isInputAllowed, error, aiVideoUrl, mediaRecorderRef,
                   audioChunksRef, userStreamRef, wsCleanup, captures, camera, timers,
                   outbound>>

\* ---- recording (hooks.ts:556-607) ----------------------------------------
NewCapture == [state |-> "acquiring", live |-> FALSE, superseded |-> FALSE]

\* the guard of the earlier drafts: a recorder was created
RecorderExists == mediaRecorderRef # 0

\* the recorder stopRecording acts on is recording (its state is not 'inactive')
RecorderActive == mediaRecorderRef # 0 /\ captures[mediaRecorderRef].state = "recording"

\* startRecording without its guard on isInputAllowed
startRecordingUnguarded ==
    /\ mounted
    /\ ~isRecording
    /\ captures' = Append(captures, NewCapture)
    /\ UNCHANGED <<countdown, answers>>
    /\ last' = Step("startRecording", NoMsg)
    /\ seen' = seen
    /\ UNCHANGED <<appVars, entryVars, mounted, pageState, pageRefs, wsCleanup, sockets, camera,
                   timers, outbound>>

\* startRecording up to its await: the guard, then the getUserMedia request.
\* Its caller, the Speak button, is rendered while !isRecording; what rejects a
\* call while input is not allowed is the function's own guard
startRecording ==
    /\ mounted
    /\ ~isRecording
    /\ captures' = IF ~isInputAllowed THEN captures ELSE Append(captures, NewCapture)
    /\ UNCHANGED <<countdown, answers>>
    /\ last' = Step("startRecording", NoMsg)
    /\ seen' = seen
    /\ UNCHANGED <<appVars, entryVars, mounted, pageState, pageRefs, wsCleanup, sockets, camera,
                   timers, outbound>>

\* getUserMedia resolved: the rest of startRecording
AudioGranted(c) ==
    /\ captures[c].state = "acquiring"
    /\ captures' = [captures EXCEPT ![c].state = "recording", ![c].live = TRUE]
    /\ mediaRecorderRef' = c
    /\ audioChunksRef' = <<>>
    /\ isRecording' = Set(isRecording, TRUE)
    /\ UNCHANGED <<countdown, answers>>
    /\ last' = Step("AudioGranted", NoMsg)
    /\ seen' = seen
    /\ UNCHANGED <<appVars, entryVars, mounted, currentQuestion, questionText, transcription,
                   isInputAllowed, error, connectionStatus, aiVideoUrl, isConnecting,
                   socketRef, userStreamRef, wsCleanup, sockets, camera, timers, outbound>>

\* getUserMedia rejected: the catch of startRecording
AudioDenied(c) ==
    /\ captures[c].state = "acquiring"
    /\ captures' = [captures EXCEPT ![c].state = "failed"]
    /\ error' = Set(error, "Could not start recording")
    /\ UNCHANGED <<countdown, answers>>
    /\ last' = Step("AudioDenied", NoMsg)
    /\ seen' = seen
    /\ UNCHANGED <<appVars, entryVars, mounted, currentQuestion, questionText, transcription,
                   isRecording, isInputAllowed, connectionStatus, aiVideoUrl, pageRefs,
                   wsCleanup, sockets, camera, timers, outbound>>

\* mediaRecorder.ondataavailable with a non-empty chunk (the 1 s timeslice)
DataAvailable(c) ==
    /\ captures[c].state = "recording"
    /\ Len(audioChunksRef) < MaxChunks
    /\ audioChunksRef' = Append(audioChunksRef, c)
    /\ UNCHANGED <<countdown, answers>>
    /\ last' = Step("ondataavailable", NoMsg)
    /\ seen' = seen
    /\ UNCHANGED <<appVars, entryVars, mounted, pageState, isConnecting, socketRef, mediaRecorderRef,
                   userStreamRef, wsCleanup, envVars>>

\* the effect of stopRecording on each variable it writes
StopCaptures == IF RecorderActive
                THEN [captures EXCEPT ![mediaRecorderRef].state = "stopping"]
                ELSE captures
StopIsRecording == IF RecorderActive THEN Set(isRecording, FALSE) ELSE isRecording
\* stopRecording without its setIsInputAllowed(false)
StopKeepsInputAllowed == isInputAllowed
StopIsInputAllowed == IF RecorderActive THEN Set(isInputAllowed, FALSE) ELSE isInputAllowed

\* stopRecording sending audio_end itself, right after recorder.stop()
stopRecordingSendsAudioEnd ==
    /\ mounted
    /\ captures' = StopCaptures
    /\ isRecording' = StopIsRecording
    /\ isInputAllowed' = StopIsInputAllowed
    /\ outbound' = IF RecorderActive /\ socketRef # 0
                   THEN send(socketRef, "audio_end", mediaRecorderRef, <<>>)
                   ELSE outbound
    /\ UNCHANGED <<countdown, answers>>
    /\ last' = Step("stopRecording", NoMsg)
    /\ seen' = seen
    /\ UNCHANGED <<appVars, entryVars, mounted, currentQuestion, questionText, transcription, error,
                   connectionStatus, aiVideoUrl, pageRefs, wsCleanup, sockets, camera,
                   timers>>

\* stopRecording, whoever calls it
stopRecording ==
    /\ mounted
    /\ captures' = StopCaptures
    /\ isRecording' = StopIsRecording
    /\ isInputAllowed' = StopIsInputAllowed
    /\ UNCHANGED <<countdown, answers>>
    /\ last' = Step("stopRecording", NoMsg)
    /\ seen' = seen
    /\ UNCHANGED <<appVars, entryVars, mounted, currentQuestion, questionText, transcription, error,
                   connectionStatus, aiVideoUrl, pageRefs, wsCleanup, sockets, camera,
                   timers, outbound>>

SocketIsOpen == socketRef # 0 /\ sockets[socketRef].state = "OPEN"

\* the recorder's stop task: the last dataavailable, then onstop
onstop(c) ==
    /\ captures[c].state = "stopping"
    /\ \E size \in {0, 1} :
         /\ size = 1 => Len(audioChunksRef) < MaxChunks
         /\ audioChunksRef' = IF size > 0 THEN Append(audioChunksRef, c) ELSE audioChunksRef
    /\ outbound' = IF SocketIsOpen
                   THEN send(socketRef, "blob", c, audioChunksRef')
                   ELSE outbound
    /\ timers' = IF SocketIsOpen THEN timers \cup {c} ELSE timers
    /\ captures' = [captures EXCEPT ![c].state = "stopped", ![c].live = FALSE]
    /\ UNCHANGED countdown
    /\ last' = Step("onstop", NoMsg)
    /\ seen' = seen
    /\ UNCHANGED <<appVars, entryVars, mounted, pageState, isConnecting, socketRef, mediaRecorderRef,
                   userStreamRef, wsCleanup, sockets, camera>>

RecorderStopped(c) == onstop(c) /\ UNCHANGED answers

\* the same, counting the blobs sent since the last start_listening
RecorderStoppedCounted(c) ==
    /\ onstop(c)
    /\ answers' = IF SocketIsOpen THEN answers + 1 ELSE answers

\* the 100 ms timer started in onstop
AudioEndTimer(c) ==
    /\ c \in timers
    /\ timers' = timers \ {c}
    /\ outbound' = IF socketRef # 0 THEN send(socketRef, "audio_end", c, <<>>) ELSE outbound
    /\ UNCHANGED <<countdown, answers>>
    /\ last' = Step("audio_end timer", NoMsg)
    /\ seen' = seen
    /\ UNCHANGED <<appVars, entryVars, mounted, pageState, pageRefs, wsCleanup, sockets, captures,
                   camera>>

\* ---- socket.onmessage (hooks.ts:493-524) ---------------------------------
OnGreetingVideo(s, m) ==
    /\ m.type = "greeting_video"
    /\ aiVideoUrl' = Set(aiVideoUrl, getFullVideoUrl(m.video_url))
    /\ questionText' = Set(questionText, WelcomeText)
    /\ UNCHANGED <<appVars, entryVars, mounted, currentQuestion, transcription, isRecording,
                   isInputAllowed, error, connectionStatus, pageRefs, wsCleanup, envVars>>

\* a recorder that is still recording once a new question is current
Superseded(caps) ==
    [c \in DOMAIN caps |->
        IF mounted /\ caps[c].state = "recording"
        THEN [caps[c] EXCEPT !.superseded = TRUE]
        ELSE caps[c]]

\* the handler reading an index field the message does not carry
OnQuestionVideoWithoutIndex(s, m) ==
    /\ m.type = "question_video"
    /\ aiVideoUrl' = Set(aiVideoUrl, getFullVideoUrl(m.video_url))
    /\ currentQuestion' = currentQuestion
    /\ questionText' = Set(questionText, m.question_text)
    /\ isInputAllowed' = Set(isInputAllowed, FALSE)
    /\ isRecording' = IF sockets[s].isRecording THEN StopIsRecording ELSE isRecording
    /\ captures' = Superseded(IF sockets[s].isRecording THEN StopCaptures ELSE captures)
    /\ UNCHANGED <<appVars, entryVars, mounted, transcription, error, connectionStatus, pageRefs,
                   wsCleanup, sockets, camera, timers, outbound>>

OnQuestionVideo(s, m) ==
    /\ m.type = "question_video"
    /\ aiVideoUrl' = Set(aiVideoUrl, getFullVideoUrl(m.video_url))
    /\ currentQuestion' = Set(currentQuestion, m.question_index)
    /\ questionText' = Set(questionText, m.question_text)
    /\ isInputAllowed' = Set(isInputAllowed, FALSE)
    /\ isRecording' = IF sockets[s].isRecording THEN StopIsRecording ELSE isRecording
    /\ captures' = Superseded(IF sockets[s].isRecording THEN StopCaptures ELSE captures)
    /\ UNCHANGED <<appVars, entryVars, mounted, transcription, error, connectionStatus, pageRefs,
                   wsCleanup, sockets, camera, timers, outbound>>

\* a start_listening branch that also clears the question text
OnStartListeningClearsQuestion(s, m) ==
    /\ m.type = "start_listening"
    /\ aiVideoUrl' = IF m.video_url # NoUrl
                     THEN Set(aiVideoUrl, getFullVideoUrl(m.video_url))
                     ELSE aiVideoUrl
    /\ isInputAllowed' = Set(isInputAllowed, TRUE)
    /\ questionText' = Set(questionText, WaitingText)
    /\ UNCHANGED <<appVars, entryVars, mounted, currentQuestion, transcription,
                   isRecording, error, connectionStatus, pageRefs, wsCleanup, envVars>>

OnStartListening(s, m) ==
    /\ m.type = "start_listening"
    /\ aiVideoUrl' = IF m.video_url # NoUrl
                     THEN Set(aiVideoUrl, getFullVideoUrl(m.video_url))
                     ELSE aiVideoUrl
    /\ isInputAllowed' = Set(isInputAllowed, TRUE)
    /\ UNCHANGED <<appVars, entryVars, mounted, currentQuestion, questionText, transcription,
                   isRecording, error, connectionStatus, pageRefs, wsCleanup, envVars>>

\* handleInterviewComplete storing the results without changing the phase
handleInterviewCompleteKeepsPhase(finalResults) ==
    /\ results' = finalResults
    /\ phase' = phase

\* App.handleInterviewComplete, the onComplete of the page
handleInterviewComplete(finalResults) ==
    /\ results' = finalResults
    /\ phase' = "results"

\* a results branch that completes only once a second question was shown
OnResultsAfterSecondQuestion(s, m) ==
    /\ m.type = "results"
    /\ IF currentQuestion > 1
       THEN /\ handleInterviewComplete(m)
            /\ mounted' = FALSE
            /\ camera' = CleanupCamera
            /\ sockets' = CleanupSockets(sockets)
            /\ isConnecting' = CleanupConnecting
       ELSE UNCHANGED <<phase, results, mounted, camera, sockets, isConnecting>>
    /\ UNCHANGED <<sessionData, entryVars, pageState, socketRef, mediaRecorderRef, audioChunksRef,
                   userStreamRef, wsCleanup, captures, timers, outbound>>

\* leaving phase 'interview' unmounts the page: both effect cleanups run
OnResults(s, m) ==
    /\ m.type = "results"
    /\ handleInterviewComplete(m)
    /\ IF mounted /\ phase' # "interview"
       THEN /\ mounted' = FALSE
            /\ camera' = CleanupCamera
            /\ sockets' = CleanupSockets(sockets)
            /\ isConnecting' = CleanupConnecting
       ELSE UNCHANGED <<mounted, camera, sockets, isConnecting>>
    /\ UNCHANGED <<sessionData, entryVars, pageState, socketRef, mediaRecorderRef, audioChunksRef,
                   userStreamRef, wsCleanup, captures, timers, outbound>>

\* a transcription_partial branch as the earlier draft had it, showing the text
OnOtherMessageShowsPartial(s, m) ==
    /\ m.type \notin {"greeting_video", "question_video", "start_listening", "results"}
    /\ transcription' = IF m.type = "transcription_partial"
                        THEN Set(transcription, m.question_text)
                        ELSE transcription
    /\ UNCHANGED <<appVars, entryVars, mounted, currentQuestion, questionText, isRecording,
                   isInputAllowed, error, connectionStatus, aiVideoUrl, pageRefs,
                   wsCleanup, envVars>>

\* a type no branch of the handler matches
OnOtherMessage(s, m) ==
    /\ m.type \notin {"greeting_video", "question_video", "start_listening", "results"}
    /\ UNCHANGED <<appVars, entryVars, mounted, pageState, pageRefs, wsCleanup, envVars>>

\* JSON.parse threw: the catch logs to the console
OnParseError(s, m) ==
    /\ m = Malformed
    /\ UNCHANGED <<appVars, entryVars, mounted, pageState, pageRefs, wsCleanup, envVars>>

MessageEvent(s, m) ==
    /\ sockets[s].state = "OPEN"
    /\ UNCHANGED countdown
    /\ last' = Step("onmessage", m)
    /\ seen' = IF m.type = "question_video" /\ mounted
               THEN Received(seen, m.question_index)
               ELSE seen
    /\ CASE m = Malformed -> OnParseError(s, m)
         [] m.type = "greeting_video" -> OnGreetingVideo(s, m)
         [] m.type = "question_video" -> OnQuestionVideo(s, m)
         [] m.type = "start_listening" -> OnStartListening(s, m)
         [] m.type = "results" -> OnResults(s, m)
         [] OTHER -> OnOtherMessage(s, m)

onmessage(s, m) == MessageEvent(s, m) /\ UNCHANGED answers

\* the same, counting the blobs sent since the last start_listening
onmessageCounted(s, m) ==
    /\ MessageEvent(s, m)
    /\ answers' = IF m.type = "start_listening" THEN 0 ELSE answers

\* ---- ResultsPage (hooks.ts:839-933) --------------------------------------
RECURSIVE Sum(_)
Sum(scores) == IF scores = <<>> THEN 0 ELSE scores[1] + Sum(Tail(scores))

\* Number.toFixed(1) of total / n, in tenths
toFixed1(total, n) == (20 * total + n) \div (2 * n)

\* what toFixed(1) gives for 0 / 0
NaN == -1

\* the reduce of ResultsPage: the sum of item.score || 0
RECURSIVE totalScore(_)
totalScore(evaluations) ==
    IF evaluations = <<>> THEN 0
    ELSE (IF Head(evaluations).score = Missing THEN 0 ELSE Head(evaluations).score)
         + totalScore(Tail(evaluations))

NoResultsFound == [found |-> FALSE, entries |-> 0, avgScore |-> 0, marks |-> <<>>]

\* what ResultsPage shows for its results prop: the 'No results found' card,
\* or one entry per evaluation under the average of their scores
ResultsPage(res) ==
    IF res = NoMsg \/ res.evaluations = NoEvaluations
    THEN NoResultsFound
    ELSE [found |-> TRUE,
          entries |-> Len(res.evaluations),
          avgScore |-> IF Len(res.evaluations) = 0 THEN NaN
                       ELSE toFixed1(totalScore(res.evaluations), Len(res.evaluations)),
          marks |-> [i \in DOMAIN res.evaluations |-> res.evaluations[i].marks]]

\* ---- a session as the message contract runs it ---------------------------
ItemScore(i) == IF i \in {1, 5} THEN 7 ELSE 8
ItemScores(n) == [i \in 1..n |-> ItemScore(i)]

Question(i) ==
    Msg("question_video", i,
        IF i = 1 THEN "Tell me about yourself" ELSE "Why this role", QuestionUrl)

\* the evaluations of a session of n questions, each item carrying its value
\* as score, as marks, or as both
Evaluations(n) ==
    {[i \in 1..n |-> Evaluation(ItemScore(i), Missing)],
     [i \in 1..n |-> Evaluation(Missing, ItemScore(i))],
     [i \in 1..n |-> Evaluation(ItemScore(i), ItemScore(i))]}

\* the results of a session of n questions: the overall score and one
\* breakdown item per question, without an evaluations list, with an empty
\* one, or with one item per question
ResultsOf(n) ==
    {[Msg("results", 0, "", NoUrl) EXCEPT
         !.overall_score = toFixed1(Sum(ItemScores(n)), n),
         !.breakdown = ItemScores(n),
         !.evaluations = e] : e \in {NoEvaluations, <<>>} \cup Evaluations(n)}

Asked == Len(seen)
Answered == Cardinality(Sent("audio_end"))

\* what the server sends next: the greeting after 'ready', then each question
\* followed by start_listening, the next question or the results once the
\* answer and its audio_end have arrived, and nothing after the results
ServerSends ==
    IF Sent("ready") = {} \/ results # NoMsg THEN {}
    ELSE IF questionText = WaitingText THEN {Msg("greeting_video", 0, "", GreetingUrl)}
    ELSE IF Asked = Answered
    THEN (IF Asked < MaxQuestions THEN {Question(Asked + 1)} ELSE {})
         \cup (IF Asked >= 1 THEN ResultsOf(Asked) ELSE {})
    ELSE IF ~isInputAllowed /\ Len(captures) = Answered
    THEN {Msg("start_listening", 0, "", NoUrl)}
    ELSE {}

\* ---- specifications ------------------------------------------------------
\* the sockets and recorders created so far
Objects == Len(sockets) + Len(captures)

\* the getUserMedia calls made so far: one by the permission effect, one by
\* the camera effect of the interview page, one by every capture
MediaRequests ==
    (IF permissionPage.request # "idle" THEN 1 ELSE 0)
    + (IF camera # "idle" THEN 1 ELSE 0)
    + Len(captures)

\* the way into the interview when nothing fails: the form is filled in and
\* submitted, the bootstrap answers with a session, the devices are granted
\* and the user continues
Arrival ==
    \/ onChangeJobDesc(Filled)
    \/ onChangeName(Filled)
    \/ ~setupPage.loading /\ handleStart
    \/ FetchSucceeds(SessionOk)
    \/ PermissionGranted
    \/ ContinueEnabled /\ handlePermissionApprove

\* the setup form and the permission page with every outcome
NextEntry ==
    \/ \E v \in FieldValues : onChangeJobDesc(v)
    \/ \E v \in FieldValues : onChangeName(v)
    \/ ~setupPage.loading /\ handleStart /\ setupPage'.requests <= MaxSubmits
    \/ \E message \in FetchErrors : FetchFails(message)
    \/ \E data \in ResponseBodies : FetchSucceeds(data)
    \/ PermissionGranted
    \/ \E errorName \in ErrorNames : PermissionFailed(errorName)
    \/ ContinueEnabled /\ handlePermissionApprove

SpecEntry == Init /\ [][NextEntry]_vars

\* the way into the interview for every endpoint the server may report
NextUrl ==
    \/ onChangeJobDesc(Filled)
    \/ onChangeName(Filled)
    \/ ~setupPage.loading /\ handleStart
    \/ \E url \in Urls : FetchSucceeds(InterviewData("s1", url))
    \/ PermissionGranted
    \/ ContinueEnabled /\ handlePermissionApprove
    \/ ConnectionEffectRerun /\ Len(sockets') <= MaxSockets
    \/ \E s \in DOMAIN sockets : SocketOpen(s)

SpecUrl == Init /\ [][NextUrl]_vars

\* what the server asks in a session of question_count questions: the
\* greeting after 'ready', then the questions 1..question_count in order
ServerAsks ==
    IF Sent("ready") = {} THEN {}
    ELSE IF questionText = WaitingText THEN {Msg("greeting_video", 0, "", GreetingUrl)}
    ELSE IF Asked < setupPage.questionCount THEN {Question(Asked + 1)}
    ELSE {}

\* the question header of the interview for every question count of the form
NextCount ==
    \/ onChangeJobDesc(Filled)
    \/ onChangeName(Filled)
    \/ \E n \in QuestionCounts : onChangeQuestionCount(n)
    \/ ~setupPage.loading /\ handleStart
    \/ FetchSucceeds(SessionOk)
    \/ PermissionGranted
    \/ ContinueEnabled /\ handlePermissionApprove
    \/ \E s \in DOMAIN sockets : SocketOpen(s)
    \/ \E s \in DOMAIN sockets : \E m \in ServerAsks : onmessage(s, m)

SpecCount == Init /\ [][NextCount]_vars

\* one connection and up to MaxAnswers captures, the blobs counted per signal
NextSubmit ==
    \/ Arrival
    \/ \E s \in DOMAIN sockets : SocketOpen(s)
    \/ \E s \in DOMAIN sockets : \E m \in ControlMessages : onmessageCounted(s, m)
    \/ startRecording /\ Len(captures') <= MaxAnswers
    \/ \E c \in DOMAIN captures : AudioGranted(c)
    \/ \E c \in DOMAIN captures : DataAvailable(c)
    \/ isRecording /\ stopRecording
    \/ \E c \in DOMAIN captures : RecorderStoppedCounted(c)
    \/ \E c \in DOMAIN captures : AudioEndTimer(c)

SpecSubmit == Init /\ [][NextSubmit]_vars

\* a countdown from any number of seconds
NextTimer ==
    \/ \E initialSeconds \in (0..MaxSeconds) \cup {InterviewSeconds} : useTimer(initialSeconds)
    \/ Tick /\ countdown'.ticks <= MaxTicks

SpecTimer == Init /\ [][NextTimer]_vars

\* the events of the page, creating at most n sockets and recorders; the
\* Stop button, which calls stopRecording, is rendered while isRecording; every
\* message type, one payload each (the payload is only displayed, no guard of
\* the page reads it)
Session(n) ==
    \/ Arrival
    \/ ConnectionEffectRerun /\ Objects' <= n
    \/ \E s \in DOMAIN sockets : SocketOpen(s)
    \/ \E s \in DOMAIN sockets : SocketError(s)
    \/ \E s \in DOMAIN sockets : SocketClose(s)
    \/ \E s \in DOMAIN sockets : \E m \in ControlMessages : onmessage(s, m)
    \/ startRecording /\ Objects' <= n
    \/ \E c \in DOMAIN captures : AudioGranted(c)
    \/ \E c \in DOMAIN captures : AudioDenied(c)
    \/ \E c \in DOMAIN captures : DataAvailable(c)
    \/ isRecording /\ stopRecording
    \/ \E c \in DOMAIN captures : RecorderStopped(c)
    \/ \E c \in DOMAIN captures : AudioEndTimer(c)

\* transport and capture
Next == Session(MaxObjects)

Spec == Init /\ [][Next]_vars

\* what the browser is bound to do once it is pending: settle a getUserMedia
\* request, run a recorder's stop task, fire a timer that was set; a click of
\* the user and a message of the server are not
Scheduled ==
    /\ WF_vars(\E c \in DOMAIN captures : AudioGranted(c) \/ AudioDenied(c))
    /\ WF_vars(\E c \in DOMAIN captures : RecorderStopped(c))
    /\ WF_vars(\E c \in DOMAIN captures : AudioEndTimer(c))

SpecLive == Spec /\ Scheduled

\* transport and capture, with stopRecording called in any state of the page
NextCalls ==
    \/ Session(MaxObjects)
    \/ stopRecording

SpecCalls == Init /\ [][NextCalls]_vars

\* transport and capture with the self-preview camera request resolving
NextMedia ==
    \/ Session(MaxMedia)
    \/ CameraGranted
    \/ CameraDenied

SpecMedia == Init /\ [][NextMedia]_vars

\* the controller's display: every payload, no capture
NextDisplay ==
    \/ Arrival
    \/ ConnectionEffectRerun /\ Len(sockets') <= MaxSockets
    \/ \E s \in DOMAIN sockets : SocketOpen(s)
    \/ \E s \in DOMAIN sockets : SocketError(s)
    \/ \E s \in DOMAIN sockets : SocketClose(s)
    \/ \E s \in DOMAIN sockets : \E m \in InboundMessages : onmessage(s, m)

SpecDisplay == Init /\ [][NextDisplay]_vars

\* one connection, the server following the contract, one answer per question
NextSession ==
    \/ Arrival
    \/ \E s \in DOMAIN sockets : SocketOpen(s)
    \/ \E s \in DOMAIN sockets : \E m \in ServerSends : onmessage(s, m)
    \/ startRecording /\ Len(captures') <= Asked
    \/ \E c \in DOMAIN captures : AudioGranted(c)
    \/ \E c \in DOMAIN captures : DataAvailable(c)
    \/ isRecording /\ stopRecording
    \/ \E c \in DOMAIN captures : RecorderStopped(c)
    \/ \E c \in DOMAIN captures : AudioEndTimer(c)

SpecSession == Init /\ [][NextSession]_vars

\* ---- properties ----------------------------------------------------------
LastIs(t) == last.op = "onmessage" /\ last.msg.type = t

\* C1: every audio_end on the outbound sequence is preceded by the audio blob
\* of the same capture
BlobBeforeAudioEnd ==
    \A j \in Sent("audio_end") :
        \E i \in Sent("blob") : i < j /\ outbound[i].cap = outbound[j].cap

AudioEndWasSent == Sent("audio_end") # {}

\* C2: startRecording invoked while input is not allowed acquires no device,
\* creates no recorder and leaves isRecording and the chunk buffer as they were
RejectedStartIsNoOp ==
    [][(last'.op = "startRecording" /\ ~isInputAllowed)
          => UNCHANGED <<captures, mediaRecorderRef, isRecording, audioChunksRef>>]_vars

StartWasRejected ==
    /\ last.op = "startRecording"
    /\ ~isInputAllowed
    /\ audioChunksRef # <<>>

Recording == {c \in DOMAIN captures : captures[c].state = "recording"}
LiveAudio == {c \in DOMAIN captures : captures[c].live}

\* C3: at most one recorder is recording and at most one acquired audio stream
\* is live at any time
SingleCapture == Cardinality(Recording) <= 1 /\ Cardinality(LiveAudio) <= 1

\* C4: once results were received the App is in phase 'results', and no later
\* message changes the controller's state
ResultsAreTerminal ==
    /\ [](results # NoMsg => phase = "results")
    /\ [][results # NoMsg => UNCHANGED <<currentQuestion, questionText, aiVideoUrl,
                                  transcription, isInputAllowed>>]_vars

MessageAfterResults ==
    /\ results # NoMsg
    /\ last.op = "onmessage"
    /\ last.msg.type \in {"question_video", "transcription_partial"}

Unmounted == phase = "results" /\ ~mounted

\* C5: after the page has unmounted no camera or microphone track it acquired
\* is live
UnmountReleasesTracks == Unmounted => camera # "live" /\ LiveAudio = {}

Connected == {s \in DOMAIN sockets : sockets[s].state \in {"CONNECTING", "OPEN"}}

\* C6: at most one socket of the page is CONNECTING or OPEN at any time
SingleConnection == Cardinality(Connected) <= 1

\* C7: the displayed question index never decreases
IndexNeverRegresses == [][currentQuestion' >= currentQuestion]_vars

\* C8: right after a question_video of a strictly increasing sequence is handled,
\* the displayed index and text are those of that message
IncreasingQuestionsAreDisplayed ==
    (mounted /\ LastIs("question_video") /\ seen # OutOfOrder)
        => /\ currentQuestion = last.msg.question_index
           /\ currentQuestion = seen[Len(seen)]
           /\ questionText = last.msg.question_text

TwoIncreasingQuestions ==
    /\ mounted
    /\ LastIs("question_video")
    /\ seen # OutOfOrder
    /\ Len(seen) >= 2

\* C9: no recorder is still recording once a later question has become current
NoSupersededRecorder == \A c \in DOMAIN captures : ~captures[c].superseded

ReadyOn(s) == {j \in Sent("ready") : outbound[j].sock = s}

\* C10: 'ready' is sent once per session, on every socket that opened, first on
\* its connection, and before any capture starts
ReadyExactlyOnce ==
    /\ Cardinality(Sent("ready")) <= 1
    /\ \A s \in DOMAIN sockets :
          sockets[s].state \in {"OPEN", "CLOSING"} => ReadyOn(s) # {}
    /\ \A j \in DOMAIN outbound :
          \E i \in ReadyOn(outbound[j].sock) : i <= j
    /\ captures # <<>> => Sent("ready") # {}

CaptureIsFinalized ==
    \A c \in 1..MaxObjects : (c \in Recording) ~> (c \notin Recording)

SentFor(t, c) == {j \in Sent(t) : outbound[j].cap = c}

\* C13: a capture whose recorder has stopped and whose audio_end timer has run
\* has exactly one audio blob and exactly one audio_end on the outbound
\* sequence, and no capture ever has more than one of either
OneBlobAndOneAudioEnd ==
    \A c \in DOMAIN captures :
        /\ Cardinality(SentFor("blob", c)) <= 1
        /\ Cardinality(SentFor("audio_end", c)) <= 1
        /\ (captures[c].state = "stopped" /\ c \notin timers)
              => /\ SentFor("blob", c) # {}
                 /\ SentFor("audio_end", c) # {}

Failed == {s \in DOMAIN sockets : sockets[s].state = "CLOSED"}

\* C14: while the page is shown (results not yet received), once a socket of
\* the session has errored or closed the page's error message is set
FailureIsShown == (mounted /\ Failed # {}) => error # ""

\* C15: when the page has handled a socket's error or close, no recorder is
\* left recording (its stop task then releases the tracks)
FailureReleasesCapture ==
    (mounted /\ last.op \in {"onerror", "onclose"}) => Recording = {}

\* C16: from the step in which a socket of the session errors or closes
\* onwards, no step creates a socket
NoReconnect == [][Failed' # {} => Len(sockets') = Len(sockets)]_vars

SessionGoesOnAfterFailure ==
    /\ mounted
    /\ Failed # {}
    /\ last.op = "stopRecording"

\* the inbound types of the message contract
KnownTypes == {"greeting_video", "question_video", "start_listening",
               "transcription_partial", "results", "error"}

\* C17: once the page has handled a message that does not parse or whose type
\* is not a known one, its error message is set
UnknownMessageIsAnError ==
    (mounted /\ last.op = "onmessage" /\ last.msg.type \notin KnownTypes)
        => error # ""

\* what the App shows in phase 'results'
ResultsView == ResultsPage(results)

\* C18: after the session of 5 questions whose results message carries the
\* overall score 7.6 and a breakdown of 5 items, the App is in phase 'results'
\* and the results view shows 5 entries under the score 7.6
ResultsAreRendered ==
    (results # NoMsg /\ Len(results.breakdown) = 5 /\ results.overall_score = 76)
        => /\ phase = "results"
           /\ ResultsView.found
           /\ ResultsView.entries = 5
           /\ ResultsView.avgScore = 76

\* C19: when the results message follows the answer to the only question, the
\* step that handles it completes the session: the App holds these results in
\* phase 'results' and the interview page is gone
SingleQuestionCompletes ==
    (LastIs("results") /\ seen = <<1>>)
        => /\ phase = "results"
           /\ results = last.msg
           /\ ~mounted

SingleQuestionAnswered ==
    /\ LastIs("results")
    /\ seen = <<1>>
    /\ SentFor("blob", 1) # {}
    /\ SentFor("audio_end", 1) # {}

ResultsDeliveredOnce == [][results # NoMsg => ~LastIs("results")']_vars

AllClosed == \A s \in DOMAIN sockets : sockets[s].state \in {"CLOSING", "CLOSED"}

\* C22: once the page has unmounted every socket it created is closing or
\* closed, and from then on nothing is sent and no capture is created
UnmountCancelsPendingWork ==
    /\ [](Unmounted => AllClosed)
    /\ [][Unmounted => (outbound' = outbound /\ Len(captures') = Len(captures))]_vars

GreetingNeverRecurs ==
    [][(mounted /\ seen # <<>> /\ LastIs("greeting_video")')
          => UNCHANGED <<questionText, aiVideoUrl>>]_vars

\* C23: the interview is entered only after the devices were granted and
\* both reported ready, and after a failed
\* acquisition the user is on the permission page with Continue disabled
InterviewOnlyWhenGranted ==
    /\ phase \in {"interview", "results"}
          => /\ permissionPage.request = "granted"
             /\ permissionPage.cameraReady
             /\ permissionPage.micReady
    /\ permissionPage.request = "failed"
          => phase = "permission" /\ ~ContinueEnabled

EnteredAfterGrant ==
    /\ phase = "interview"
    /\ last.op = "handlePermissionApprove"
    /\ permissionPage.request = "granted"

\* the cause an error name stands for
Cause(errorName) ==
    IF errorName \in {"NotAllowedError", "PermissionDeniedError"} THEN "denied"
    ELSE IF errorName = "NotFoundError" THEN "device not found"
    ELSE IF errorName = "NotReadableError" THEN "device busy"
    ELSE IF errorName = "SecurityError" THEN "insecure context"
    ELSE "other"

\* C24: the message shown after a failed acquisition is the message of no
\* other cause, and the denial hint is set exactly for the denied cause
SpecificPermissionError ==
    last.op = "PermissionFailed"
        => /\ \A other \in ErrorNames :
                Cause(other) # Cause(last.msg.type)
                    => PermissionError(other) # permissionPage.error
           /\ permissionPage.permissionDenied <=> Cause(last.msg.type) = "denied"

DeviceBusyShown ==
    /\ last.op = "PermissionFailed"
    /\ last.msg.type = "NotReadableError"
    /\ permissionPage.error = "Camera/microphone already in use"
    /\ ~permissionPage.permissionDenied

\* C25: once the permission page has unmounted no track of its preview
\* stream is live
PreviewReleased == ~permissionPage.mounted => permissionPage.tracks # "live"

Blank(v) == \A i \in DOMAIN v : v[i] = " "

\* C26: submitting the form while the job description or the name is empty
\* or blank issues no request, does not call onStart, leaves loading false
\* and sets an error
ValidationBeforeCall ==
    [][((Blank(setupPage.jobDesc) \/ Blank(setupPage.name)) /\ last'.op = "handleStart")
          => /\ setupPage'.requests = setupPage.requests
             /\ UNCHANGED <<phase, sessionData>>
             /\ ~setupPage'.loading
             /\ setupPage'.error # ""]_vars

BlankNameRejected ==
    /\ last.op = "handleStart"
    /\ setupPage.jobDesc = Filled
    /\ setupPage.name = <<" ">>
    /\ setupPage.error = "Please fill in all fields"
    /\ setupPage.requests = 0
    /\ phase = "setup"

HasIdentifiers(data) ==
    /\ data.session_id \notin {NoSessionId, NoData.session_id}
    /\ data.ws_url \notin {NoWsUrl, NoData.ws_url}

\* C27: the setup phase is left only with a session_id and a ws_url, and a
\* failed bootstrap call leaves the form in the setup phase with an error,
\* submittable again, without another request
BootstrapErrorsBlockEntry ==
    /\ [][(phase = "setup" /\ phase' # "setup") => HasIdentifiers(sessionData')]_vars
    /\ [][last'.op = "FetchFails"
            => /\ phase' = "setup"
               /\ setupPage'.error # ""
               /\ ~setupPage'.loading
               /\ setupPage'.requests = setupPage.requests]_vars

\* C30: at most one device acquisition is requested in a session
AcquiredOncePerSession == MediaRequests <= 1

\* C31: every socket is opened on the single rewrite of the endpoint the
\* server reported: rewriting in App and again in InterviewPage changes nothing
RewriteIsIdempotent ==
    [][(phase = "permission" /\ phase' = "interview")
          => \A s \in DOMAIN sockets' : sockets'[s].url = wsUrlOf(sessionData.ws_url)]_vars

\* C32: a recorder starts recording only while input is allowed
StartNeverWinsRace ==
    [][\A c \in DOMAIN captures :
          (captures[c].state = "acquiring" /\ captures'[c].state = "recording")
              => isInputAllowed']_vars

\* C33: at most one blob was sent since the last start_listening
OneBlobPerSignal == answers <= 1

\* C34: every chunk of a blob was recorded by the recorder of the capture the
\* blob is sent for
BlobHoldsOwnChunks ==
    \A j \in Sent("blob") :
        \A k \in DOMAIN outbound[j].chunks : outbound[j].chunks[k] = outbound[j].cap

\* C35: the header 'Question i of N' of the interview has 1 <= i <= N
QuestionNumberInRange ==
    mounted => (1 <= currentQuestion /\ currentQuestion <= totalQuestions)

PhaseOrder(p) ==
    CASE p = "setup" -> 1
      [] p = "permission" -> 2
      [] p = "interview" -> 3
      [] p = "results" -> 4

PhaseStepsForward == [][phase' = phase \/ PhaseOrder(phase') = PhaseOrder(phase) + 1]_vars

ResultsPhaseIsFinal == [][phase = "results" => phase' = "results"]_vars

\* C36: the phase moves one step forward at a time and stays in 'results';
\* in 'permission' and 'interview' the session data is set, in 'results' the
\* results are stored
PhaseMovesForward ==
    /\ PhaseStepsForward
    /\ ResultsPhaseIsFinal
    /\ [](phase \in {"permission", "interview"} => sessionData # NoData)
    /\ [](phase = "results" => results # NoMsg)

OverallIsMeanOfMarks ==
    (phase = "results" /\ ResultsView.found /\ ResultsView.entries > 0)
        => /\ \A i \in DOMAIN ResultsView.marks : ResultsView.marks[i] # Missing
           /\ ResultsView.avgScore * ResultsView.entries = 10 * Sum(ResultsView.marks)

\* C38: results without evaluations to average, the list missing or empty,
\* show the 'No results found' view
NoAverageOverNothing ==
    (phase = "results" /\ results.evaluations \in {NoEvaluations, <<>>})
        => ~ResultsView.found

\* C40: the remaining seconds of a countdown stay between 0 and the initial
\* seconds, every tick takes one second off while some are left, and 0 stays 0
CountdownInBounds ==
    /\ [](countdown # NoTimer
            => countdown.remaining \in 0..countdown.initialSeconds)
    /\ [][countdown'.ticks = countdown.ticks + 1
            => countdown'.remaining = IF countdown.remaining > 0
                                      THEN countdown.remaining - 1
                                      ELSE 0]_vars

CountdownStaysAtZero ==
    /\ countdown.initialSeconds = MaxSeconds
    /\ countdown.ticks = MaxTicks
    /\ countdown.remaining = 0

====
